---- MODULE Spec2Model ----
(***************************************************************************)
(* Model of src/app/page.tsx: the SparseLLM component.                     *)
(*                                                                         *)
(* The component holds React state (neurons, connections, inputText,       *)
(* sparsityLevel, isProcessing, stats), builds a layered topology in a     *)
(* mount effect, and runs processInput, an async function that resets a    *)
(* working copy, then processes one layer per timer callback.              *)
(*                                                                         *)
(* Numbers.  Math.random() returns a value in [0,1); the model draws it    *)
(* from RandomDraws, in sixteenths.  sparsityLevel is kept as the slider's *)
(* integer percent.  Activations are fixed-point integers over One; with   *)
(* the draws being dyadic every product and sum of the code is exact in    *)
(* IEEE doubles, and exact here.                                           *)
(***************************************************************************)
EXTENDS Integers, Sequences, FiniteSets, TLC

VARIABLES
    neurons,        \* useState<Neuron[]>      (line 23)
    connections,    \* useState<Connection[]>  (line 24)
    inputText,      \* useState('')            (line 25), a sequence of char codes
    sparsityLevel,  \* useState(0.85)          (line 26), in percent
    isProcessing,   \* useState(false)         (line 27)
    stats,          \* useState({active,total,sparsity}) (line 28)
    rendered,       \* what the committed render's closures captured
    runs,           \* the invocations of processInput that are suspended at an await
    runCount,       \* number of accepted invocations so far
    emitted,        \* history: the setNeurons/setConnections calls of the latest run
    lastCall        \* history: the processInput call made by the last step, if any

vars == <<neurons, connections, inputText, sparsityLevel, isProcessing, stats,
          rendered, runs, runCount, emitted, lastCall>>

\* Everything but the record of the last call.
progVars == <<neurons, connections, inputText, sparsityLevel, isProcessing, stats,
              rendered, runs, runCount, emitted>>

-----------------------------------------------------------------------------
(* Bounds and program constants *)

\* Accepted runs per behaviour.
MaxRuns == 2

\* const layers = [16, 64, 128, 128, 64, 16], scaled down to three layers.
layers == <<2, 2, 1>>

numLayers == Len(layers)

\* Math.min(8, nextLayer.length)
MaxOutDegree == 8

\* useState(0.85), in percent
DefaultSparsity == 85

\* Values of Math.random(), in sixteenths (RandDen): 0 and 15/16.
RandDen == 16
RandomDraws == {0, 15}

\* Values the slider is moved to (percent), besides the default.
SparsityChoices == {0, 100}

\* Texts typed or passed: '' and 'A ' (char codes 65, 32).
Texts == {<< >>, <<65, 32>>}

\* Topologies of the build-only specification: the scaled-down one, and one whose
\* second layer is larger than MaxOutDegree.
BuildLayerChoices == {layers, <<1, 9>>}

\* Denominators.  A weight r*2-1 is (r - RandDen/2) / (RandDen/2) for a draw r;
\* featureVal is code/128; the rescale factor 1 + r*0.5 is (2*RandDen + r) /
\* (2*RandDen); every layer after the first multiplies by a weight.  One is the
\* fixed-point 1.0 of the activations, WeightDen that of the weights.
WeightDen == RandDen \div 2
CodeDen == 128
One == CodeDen * 2 * RandDen * WeightDen ^ (numLayers - 1)

Min(a, b) == IF a < b THEN a ELSE b
Max(a, b) == IF a > b THEN a ELSE b

\* Math.ceil(a / b) for a >= 0, b > 0
CeilDiv(a, b) == (a + b - 1) \div b

NoCall == [text |-> << >>, accepted |-> FALSE, made |-> FALSE]

-----------------------------------------------------------------------------
(* Topology build effect, lines 31-80 *)

\* id `L${layerIdx}-N${i}` as the pair <<layerIdx, i>>; layerIdx and i from 0.
NeuronId(layerIdx, i) == <<layerIdx, i>>

\* The neurons pushed for one layer (lines 43-52); x and y are layout only.
LayerNeurons(layerIdx, count) ==
    [j \in 1..count |->
        [id |-> NeuronId(layerIdx, j - 1), layer |-> layerIdx,
         active |-> FALSE, activation |-> 0]]

RECURSIVE NeuronListFrom(_, _)
NeuronListFrom(ls, l) ==
    IF l > Len(ls) THEN << >>
    ELSE LayerNeurons(l - 1, ls[l]) \o NeuronListFrom(ls, l + 1)

\* neuronList after the first forEach (lines 41-53)
NeuronList(ls) == NeuronListFrom(ls, 1)

\* neuronList.filter(n => n.layer === layerIdx)
FilterLayer(ns, layerIdx) == SelectSeq(ns, LAMBDA n : n.layer = layerIdx)

\* Math.random() * 2 - 1, in eighths
RandomWeight(r) == ((2 * r - RandDen) * WeightDen) \div RandDen

\* const k = Math.min(8, nextLayer.length)
OutDegreeDense(nextCount) == nextCount
OutDegree(nextCount) == Min(MaxOutDegree, nextCount)

\* [...nextLayer].sort(() => Math.random() - 0.5).slice(0, k): the comparator is
\* inconsistent, so which k units come first is any choice of k distinct units.
\* The order of one unit's targets in the list changes no sum and no ranking, and
\* is kept as the layer's order.
TargetChoices(nextLayer) ==
    {T \in SUBSET {n.id : n \in {nextLayer[j] : j \in 1..Len(nextLayer)}} :
        Cardinality(T) = OutDegree(Len(nextLayer))}

\* The connections pushed for one source unit (lines 66-73), with targets T and
\* the draws w[to] of Math.random() for the weights.
ConnectionsOf(from, nextLayer, T, w) ==
    LET chosen == SelectSeq(nextLayer, LAMBDA n : n.id \in T)
    IN  [j \in 1..Len(chosen) |->
            [from |-> from.id, to |-> chosen[j].id,
             weight |-> RandomWeight(w[chosen[j].id]), active |-> FALSE]]

\* Every list one source unit can push.
ConnectionChoices(from, nextLayer) ==
    {ConnectionsOf(from, nextLayer, c[1], c[2]) :
        c \in UNION {{<<T, w>> : w \in [T -> RandomDraws]} : T \in TargetChoices(nextLayer)}}

\* connectionList for the source units sources[i..], each connected to its next layer
RECURSIVE ConnectionListsFrom(_, _, _)
ConnectionListsFrom(ns, sources, i) ==
    IF i > Len(sources) THEN {<< >>}
    ELSE {h \o t : h \in ConnectionChoices(sources[i], FilterLayer(ns, sources[i].layer + 1)),
                   t \in ConnectionListsFrom(ns, sources, i + 1)}

\* Every connectionList the second forEach can produce (lines 56-76): only units of
\* layers before the last are sources (layerIdx < layers.length - 1).
ConnectionLists(ls) ==
    LET ns == NeuronList(ls)
        sources == SelectSeq(ns, LAMBDA n : n.layer < Len(ls) - 1)
    IN  ConnectionListsFrom(ns, sources, 1)

-----------------------------------------------------------------------------
(* processInput, lines 147-241 *)

\* if (!text || isProcessing) return
RejectedWhenEmpty(text, processing) == text = << >>
RejectedWhenBusy(text, processing) == processing
Rejected(text, processing) == text = << >> \/ processing

\* c.toLowerCase() on the codes the model types (ASCII)
ToLowerCase(c) == IF c \in 65..90 THEN c + 32 ELSE c

\* text.toLowerCase().split('').map(c => c.charCodeAt(0))
Tokenize(text) == [i \in 1..Len(text) |-> ToLowerCase(text[i])]

\* neurons.map(n => ({...n, active: false, activation: 0}))
\* The reset that clears the flag and leaves the activation value.
ResetNeuronsKeepsActivation(ns) ==
    [i \in 1..Len(ns) |-> [ns[i] EXCEPT !.active = FALSE]]

ResetNeurons(ns) ==
    [i \in 1..Len(ns) |-> [ns[i] EXCEPT !.active = FALSE, !.activation = 0]]

\* connections.map(c => ({...c, active: false}))
\* The reset that rebuilds each connection without its weight.
ResetConnectionsDropsWeight(cs) ==
    [i \in 1..Len(cs) |-> [cs[i] EXCEPT !.active = FALSE, !.weight = 0]]

ResetConnections(cs) ==
    [i \in 1..Len(cs) |-> [cs[i] EXCEPT !.active = FALSE]]

\* Position of ns[i] in updatedNeurons.filter(n => n.layer === layerIdx), from 0
IndexInLayer(ns, i) == Cardinality({j \in 1..(i - 1) : ns[j].layer = ns[i].layer})

LayerSize(ns, layerIdx) == Cardinality({j \in 1..Len(ns) : ns[j].layer = layerIdx})

\* features[idx % features.length] / 128
FeatureVal(features, idx) ==
    (features[(idx % Len(features)) + 1] * One) \div CodeDen

\* Math.random() > sparsityLevel, r in sixteenths and s in percent
InputGateInverted(r, s) == r * 100 < s * RandDen
InputGate(r, s) == r * 100 > s * RandDen

\* Math.min(1, featureVal * (1 + Math.random() * 0.5))
\* The rescaling without Math.min(1, ...).
RescaleNoClamp(featureVal, r) ==
    (featureVal * (2 * RandDen + r)) \div (2 * RandDen)

Rescale(featureVal, r) ==
    Min(One, (featureVal * (2 * RandDen + r)) \div (2 * RandDen))

\* The input layer (lines 178-186); gate[idx] and scale[idx] are the two draws of
\* Math.random() for the unit at position idx (the second is made only if active).
InputLayer(ns, features, s, gate, scale) ==
    [i \in 1..Len(ns) |->
        IF ns[i].layer # 0 THEN ns[i]
        ELSE LET idx == IndexInLayer(ns, i)
                 featureVal == FeatureVal(features, idx)
                 on == InputGate(gate[idx], s)
             IN  [ns[i] EXCEPT !.active = on,
                               !.activation = IF on THEN Rescale(featureVal, scale[idx])
                                              ELSE featureVal]]

\* updatedNeurons.find(n => n.id === conn.from)
FindNeuron(ns, id) == ns[CHOOSE i \in 1..Len(ns) : ns[i].id = id]

\* if (fromNeuron && fromNeuron.active)
SourceActiveAlways(ns, conn) == TRUE
SourceActive(ns, conn) ==
    /\ \E i \in 1..Len(ns) : ns[i].id = conn.from
    /\ FindNeuron(ns, conn.from).active

\* sum += fromNeuron.activation * conn.weight, over the incoming connections
\* cs[j..] of the unit `id`; a weight is in eighths.
RECURSIVE IncomingSum(_, _, _, _)
IncomingSum(ns, cs, id, j) ==
    IF j > Len(cs) THEN 0
    ELSE (IF cs[j].to = id /\ SourceActive(ns, cs[j])
          THEN (FindNeuron(ns, cs[j].from).activation * cs[j].weight) \div WeightDen
          ELSE 0)
         + IncomingSum(ns, cs, id, j + 1)

\* Math.max(0, sum), stored as neuron.activation (lines 203-207).  The sources are
\* read as they are before the step: the step writes units of layerIdx only, and
\* no connection of a built topology starts in the layer it ends in.
\* The activation taken as the magnitude of the sum instead of Math.max(0, sum).
ComputeActivationsAbs(ns, cs, layerIdx) ==
    [i \in 1..Len(ns) |->
        IF ns[i].layer # layerIdx THEN ns[i]
        ELSE LET sum == IncomingSum(ns, cs, ns[i].id, 1)
             IN  [ns[i] EXCEPT !.activation = IF sum < 0 THEN 0 - sum ELSE sum]]

ComputeActivations(ns, cs, layerIdx) ==
    [i \in 1..Len(ns) |->
        IF ns[i].layer # layerIdx THEN ns[i]
        ELSE [ns[i] EXCEPT !.activation = Max(0, IncomingSum(ns, cs, ns[i].id, 1))]]

\* conn.active = true for the incoming connections of the layer's units whose
\* source is active (line 199); nothing sets conn.active = false in the loop.
MarkConnections(ns, cs, layerIdx) ==
    [j \in 1..Len(cs) |->
        IF /\ \E i \in 1..Len(ns) : ns[i].id = cs[j].to /\ ns[i].layer = layerIdx
           /\ SourceActive(ns, cs[j])
        THEN [cs[j] EXCEPT !.active = TRUE]
        ELSE cs[j]]

\* Math.ceil(currentLayerNeurons.length * (1 - sparsityLevel)), s in percent
TopKOneLess(count, s) == Max(0, CeilDiv(count * (100 - s), 100) - 1)
TopK(count, s) == CeilDiv(count * (100 - s), 100)

\* neuron.activation > 0.1
AboveFloor(a) == 10 * a > One

\* Index of ns[i] after .sort((a, b) => b.activation - a.activation), a stable
\* sort: the units of its layer that come before it.
SortedIndex(ns, i) ==
    Cardinality({j \in 1..Len(ns) :
        /\ ns[j].layer = ns[i].layer
        /\ \/ ns[j].activation > ns[i].activation
           \/ ns[j].activation = ns[i].activation /\ j < i})

\* if (idx < k && neuron.activation > 0.1)
KeepsWithoutFloor(idx, k, a) == idx < k
KeepsInclusive(idx, k, a) == idx <= k /\ AboveFloor(a)
Keeps(idx, k, a) == idx < k /\ AboveFloor(a)

\* The top-k gate (lines 210-221)
\* The gate run over updatedNeurons instead of currentLayerNeurons: the units of
\* the other layers fall outside the top k of their own layer's step.
TopKGateAllUnits(ns, layerIdx, s) ==
    LET k == TopK(LayerSize(ns, layerIdx), s)
    IN  [i \in 1..Len(ns) |->
            IF ns[i].layer # layerIdx THEN [ns[i] EXCEPT !.active = FALSE]
            ELSE IF Keeps(SortedIndex(ns, i), k, ns[i].activation)
                 THEN [ns[i] EXCEPT !.active = TRUE,
                                    !.activation = Min(One, ns[i].activation)]
                 ELSE [ns[i] EXCEPT !.active = FALSE]]

TopKGate(ns, layerIdx, s) ==
    LET k == TopK(LayerSize(ns, layerIdx), s)
    IN  [i \in 1..Len(ns) |->
            IF ns[i].layer # layerIdx THEN ns[i]
            ELSE IF Keeps(SortedIndex(ns, i), k, ns[i].activation)
                 THEN [ns[i] EXCEPT !.active = TRUE,
                                    !.activation = Min(One, ns[i].activation)]
                 ELSE [ns[i] EXCEPT !.active = FALSE]]

\* Math.round(x) for x = a / b >= 0: halves round up
RoundDiv(a, b) == (2 * a + b) \div (2 * b)

\* The statistics (lines 229-238)
\* The statistics with the share of active units in place of the share of
\* inactive ones.
StatisticsActivityPercent(ns) ==
    LET activeCount == Cardinality({i \in 1..Len(ns) : ns[i].active})
        totalCount == Len(ns)
    IN  [active |-> activeCount, total |-> totalCount,
         sparsity |-> RoundDiv(100 * activeCount, totalCount)]

Statistics(ns) ==
    LET activeCount == Cardinality({i \in 1..Len(ns) : ns[i].active})
        totalCount == Len(ns)
    IN  [active |-> activeCount, total |-> totalCount,
         sparsity |-> RoundDiv(100 * (totalCount - activeCount), totalCount)]

-----------------------------------------------------------------------------
(* State machine *)

\* What a render captures: the handlers of the committed render read these.
View == [isProcessing |-> isProcessing, inputText |-> inputText,
         sparsityLevel |-> sparsityLevel]

\* One setNeurons/setConnections pair, as the history keeps it: the run, the layer
\* (-1 for the reset of lines 167-168), the run's sparsityLevel, the arrays handed
\* over, and the units as they were before the gate.
Emission(run, layerIdx, ns, cs, raw) ==
    [run |-> run.id, layer |-> layerIdx, sparsityLevel |-> run.sparsityLevel,
     neurons |-> ns, connections |-> cs, raw |-> raw]

\* What the arrays handed over by emission j hold now.  setNeurons(updatedNeurons)
\* (line 167) hands over the working array and setNeurons([...updatedNeurons])
\* (line 224) a copy of the array: either way its elements are the run's unit
\* objects, which the later turns of the loop write in place (lines 180-184,
\* 207, 216-219).  While the run is suspended their fields are those of its
\* working copy; once it has returned they are as its last emission left them.
HeldNeurons(j) ==
    IF \E i \in 1..Len(runs) : runs[i].id = emitted[j].run
    THEN runs[CHOOSE i \in 1..Len(runs) : runs[i].id = emitted[j].run].updatedNeurons
    ELSE emitted[Len(emitted)].neurons

\* The same for setConnections (lines 168, 225) and conn.active = true (line 199).
HeldConnections(j) ==
    IF \E i \in 1..Len(runs) : runs[i].id = emitted[j].run
    THEN runs[CHOOSE i \in 1..Len(runs) : runs[i].id = emitted[j].run].updatedConnections
    ELSE emitted[Len(emitted)].connections

\* The state after mount, before the build effect (lines 23-28).
InitMount ==
    /\ neurons = << >>
    /\ connections = << >>
    /\ inputText = << >>
    /\ sparsityLevel = DefaultSparsity
    /\ isProcessing = FALSE
    /\ stats = [active |-> 0, total |-> 0, sparsity |-> 0]
    /\ rendered = [isProcessing |-> FALSE, inputText |-> << >>,
                   sparsityLevel |-> DefaultSparsity]
    /\ runs = << >>
    /\ runCount = 0
    /\ emitted = << >>
    /\ lastCall = NoCall

\* The build effect (lines 31-80) for the layer sizes ls.
InitializeNetwork(ls) ==
    /\ neurons = << >>
    /\ neurons' = NeuronList(ls)
    /\ connections' \in ConnectionLists(ls)
    /\ UNCHANGED <<inputText, sparsityLevel, isProcessing, stats, rendered, runs,
                   runCount, emitted, lastCall>>

\* The state after mount and the build effect.
Init ==
    /\ neurons = NeuronList(layers)
    /\ connections \in ConnectionLists(layers)
    /\ inputText = << >>
    /\ sparsityLevel = DefaultSparsity
    /\ isProcessing = FALSE
    /\ stats = [active |-> 0, total |-> 0, sparsity |-> 0]
    /\ rendered = [isProcessing |-> FALSE, inputText |-> << >>,
                   sparsityLevel |-> DefaultSparsity]
    /\ runs = << >>
    /\ runCount = 0
    /\ emitted = << >>
    /\ lastCall = NoCall

\* onChange of the text input (line 318); the input is disabled while the
\* committed render has isProcessing (line 321).  An update made in an event
\* handler is rendered before the next event.
SetInputText(t) ==
    /\ ~rendered.isProcessing
    /\ inputText' = t
    /\ rendered' = [rendered EXCEPT !.inputText = t]
    /\ lastCall' = NoCall
    /\ UNCHANGED <<neurons, connections, sparsityLevel, isProcessing, stats, runs,
                   runCount, emitted>>

\* onChange of the slider (line 368), disabled while processing (line 369).
\* The slider without disabled={isProcessing}.
SetSparsityLevelAlwaysEnabled(p) ==
    /\ sparsityLevel' = p
    /\ rendered' = [rendered EXCEPT !.sparsityLevel = p]
    /\ lastCall' = NoCall
    /\ UNCHANGED <<neurons, connections, inputText, isProcessing, stats, runs,
                   runCount, emitted>>

SetSparsityLevel(p) ==
    /\ ~rendered.isProcessing
    /\ sparsityLevel' = p
    /\ rendered' = [rendered EXCEPT !.sparsityLevel = p]
    /\ lastCall' = NoCall
    /\ UNCHANGED <<neurons, connections, inputText, isProcessing, stats, runs,
                   runCount, emitted>>

\* processInput up to its first await (lines 147-170), for a call that passes the
\* guard: the run is left suspended at the 200 ms timer.  renderedAfter is what the
\* committed render holds when the handler's updates have been processed.
Accept(text, renderedAfter) ==
    LET run == [id |-> runCount + 1,
                features |-> Tokenize(text),
                sparsityLevel |-> rendered.sparsityLevel,
                layerIdx |-> 0,
                updatedNeurons |-> ResetNeurons(neurons),
                updatedConnections |-> ResetConnections(connections)]
    IN  /\ runCount < MaxRuns
        /\ isProcessing' = TRUE
        /\ neurons' = run.updatedNeurons
        /\ connections' = run.updatedConnections
        /\ runs' = Append(runs, run)
        /\ runCount' = runCount + 1
        /\ emitted' = <<Emission(run, -1, run.updatedNeurons, run.updatedConnections,
                                 run.updatedNeurons)>>
        /\ rendered' = renderedAfter
        /\ lastCall' = [text |-> text, accepted |-> TRUE, made |-> TRUE]
        /\ UNCHANGED <<inputText, sparsityLevel, stats>>

\* The updates of lines 150-168 are made inside a discrete event handler (key
\* press, click): React renders them before it dispatches the next event, so the
\* next handler's closure has isProcessing = true.
StartRunStaleClosure(text) == Accept(text, rendered)
StartRun(text) == Accept(text, [rendered EXCEPT !.isProcessing = TRUE])

\* processInput(text), called on the committed render's closure (line 147).
ProcessInput(text) ==
    IF Rejected(text, rendered.isProcessing)
    THEN /\ lastCall' = [text |-> text, accepted |-> FALSE, made |-> TRUE]
         /\ UNCHANGED progVars
    ELSE StartRun(text)

\* onKeyPress with Enter (line 319) on the input, which is disabled while
\* processing (line 321).
KeyPressEnter ==
    /\ ~rendered.isProcessing
    /\ ProcessInput(rendered.inputText)

\* onClick of the button (line 334), disabled while processing or without text
\* (line 335).
ButtonClick ==
    /\ ~(rendered.isProcessing \/ rendered.inputText = << >>)
    /\ ProcessInput(rendered.inputText)

\* A submit that reaches processInput whatever the controls' disabled attributes
\* say, with any argument: the guard of line 148 is then the only barrier.
Invoke(text) == ProcessInput(text)

\* The draws of Math.random() one turn of the loop can make, by position in the
\* layer: only the input layer draws (lines 182 and 184).
Draws(layerIdx, count) ==
    IF layerIdx = 0 THEN [0..(count - 1) -> RandomDraws]
    ELSE {[idx \in 0..(count - 1) |-> 0]}

\* for (let layerIdx = 0; layerIdx < 6; layerIdx++): 6 is layers.length
LoopStopsEarly(layerIdx) == layerIdx < numLayers - 1
LoopContinues(layerIdx) == layerIdx < numLayers

\* One turn of the loop (lines 173-227) of the suspended run runs[i], resumed by
\* its timer: the layer's activations, the gate, the two set calls, and the next
\* 300 ms await.
LayerStep(i) ==
    LET run == runs[i]
        l == run.layerIdx
        n0 == LayerSize(run.updatedNeurons, 0)
    IN  /\ LoopContinues(l)
        /\ \E gate \in Draws(l, n0), scale \in Draws(l, n0) :
             LET raw == IF l = 0 THEN run.updatedNeurons
                        ELSE ComputeActivations(run.updatedNeurons,
                                                run.updatedConnections, l)
                 ns == IF l = 0
                       THEN InputLayer(run.updatedNeurons, run.features,
                                       run.sparsityLevel, gate, scale)
                       ELSE TopKGate(raw, l, run.sparsityLevel)
                 cs == IF l = 0 THEN run.updatedConnections
                       ELSE MarkConnections(run.updatedNeurons,
                                            run.updatedConnections, l)
             IN  /\ runs' = [runs EXCEPT ![i] = [run EXCEPT !.layerIdx = l + 1,
                                                            !.updatedNeurons = ns,
                                                            !.updatedConnections = cs]]
                 /\ neurons' = ns
                 /\ connections' = cs
                 /\ emitted' = Append(emitted, Emission(run, l, ns, cs, raw))
        /\ lastCall' = NoCall
        /\ UNCHANGED <<inputText, sparsityLevel, isProcessing, stats, rendered, runCount>>

\* The end of processInput (lines 229-240), after the last await: the statistics
\* and setIsProcessing(false).  The render of these updates comes later.
FinishKeepsProcessing(i) ==
    /\ ~LoopContinues(runs[i].layerIdx)
    /\ stats' = Statistics(runs[i].updatedNeurons)
    /\ runs' = SubSeq(runs, 1, i - 1) \o SubSeq(runs, i + 1, Len(runs))
    /\ lastCall' = NoCall
    /\ UNCHANGED <<neurons, connections, inputText, sparsityLevel, isProcessing,
                   rendered, runCount, emitted>>

Finish(i) ==
    /\ ~LoopContinues(runs[i].layerIdx)
    /\ stats' = Statistics(runs[i].updatedNeurons)
    /\ isProcessing' = FALSE
    /\ runs' = SubSeq(runs, 1, i - 1) \o SubSeq(runs, i + 1, Len(runs))
    /\ lastCall' = NoCall
    /\ UNCHANGED <<neurons, connections, inputText, sparsityLevel, rendered,
                   runCount, emitted>>

\* The render React schedules for updates made in a timer callback.
Render ==
    /\ rendered # View
    /\ rendered' = View
    /\ lastCall' = NoCall
    /\ UNCHANGED <<neurons, connections, inputText, sparsityLevel, isProcessing,
                   stats, runs, runCount, emitted>>

TimerStep == \E i \in 1..Len(runs) : LayerStep(i) \/ Finish(i)

Next ==
    \/ \E t \in Texts : SetInputText(t)
    \/ \E p \in SparsityChoices : SetSparsityLevel(p)
    \/ KeyPressEnter
    \/ ButtonClick
    \/ \E t \in Texts : Invoke(t)
    \/ \E i \in 1..Len(runs) : LayerStep(i)
    \/ \E i \in 1..Len(runs) : Finish(i)
    \/ Render

Spec == Init /\ [][Next]_vars

\* The topologies whose weights all come from one value of Math.random(): all
\* -1 (no unit beyond the input layer can fire), or all 7/8.
InitUniformWeights ==
    /\ Init
    /\ \E r \in RandomDraws :
          \A j \in 1..Len(connections) : connections[j].weight = RandomWeight(r)

\* The timers of a suspended run fire.  Progress is checked on the topologies of
\* InitUniformWeights: the loop of processInput does not branch on a weight.
LiveSpec == InitUniformWeights /\ [][Next]_vars /\ WF_vars(TimerStep)

\* The build effect alone, for each of BuildLayerChoices.
NextBuild == \E ls \in BuildLayerChoices : InitializeNetwork(ls)

SpecBuild == InitMount /\ [][NextBuild]_vars

-----------------------------------------------------------------------------
(* Helpers of the properties *)

\* The run `id` is suspended at one of its awaits.
InProgress(id) == \E i \in 1..Len(runs) : runs[i].id = id

\* The latest run has returned.
Completed == runs = << >> /\ emitted # << >>

AllInactive(ns, cs) ==
    /\ \A i \in 1..Len(ns) : ~ns[i].active /\ ns[i].activation = 0
    /\ \A j \in 1..Len(cs) : ~cs[j].active

ActiveCount(ns, layerIdx) ==
    Cardinality({i \in 1..Len(ns) : ns[i].layer = layerIdx /\ ns[i].active})

-----------------------------------------------------------------------------
(* C1: at most one invocation of processInput is in progress at any time. *)
C1_AtMostOneRun == Len(runs) <= 1

\* A submit with text arrived while a run was between two layers, and was not
\* accepted.
C1_Witness ==
    /\ Len(runs) = 1
    /\ runs[1].layerIdx > 0
    /\ lastCall.made /\ lastCall.text # << >> /\ ~lastCall.accepted

(* C2: a call made while a run is in progress is dropped: it is not accepted     *)
(* and the step changes nothing of the program's state, the suspended run and   *)
(* the emitted snapshots included, so the run goes on as without the call.      *)
C2_ReentrantCallDropped ==
    [][(runs # << >> /\ lastCall'.made) =>
           (~lastCall'.accepted /\ UNCHANGED progVars)]_vars

\* The second run was under way, past its input layer, when a call with text
\* was dropped.
C2_Witness ==
    /\ runCount = 2
    /\ Len(runs) = 1
    /\ Len(emitted) >= 2
    /\ lastCall.made /\ lastCall.text # << >> /\ ~lastCall.accepted

(* C3, as claimed: a run that has returned made exactly numLayers emissions,    *)
(* for the layers 0..numLayers-1 in order.                                      *)
C3_ExactlyNumLayersSnapshots ==
    Completed =>
        /\ Len(emitted) = numLayers
        /\ \A j \in 1..Len(emitted) : emitted[j].layer = j - 1

(* C3, amended: a run makes numLayers + 1 emissions: first the all-inactive     *)
(* reset (lines 167-168), then one per layer in the order 0..numLayers-1; a     *)
(* suspended run has made those up to its current layer.                        *)
C3_ResetThenOnePerLayer ==
    /\ \A j \in 1..Len(emitted) :
          /\ emitted[j].layer = j - 2
          /\ emitted[j].run = emitted[1].run
    /\ emitted # << >> => AllInactive(emitted[1].neurons, emitted[1].connections)
    /\ \A i \in 1..Len(runs) : Len(emitted) = runs[i].layerIdx + 1
    /\ Completed => Len(emitted) = numLayers + 1

\* A run has returned after its emissions, with some unit active in the last.
C3_Witness ==
    /\ Completed
    /\ Len(emitted) = numLayers + 1
    /\ \E i \in 1..Len(neurons) : neurons[i].active

(* C4: under the timers firing, every run in progress eventually has emitted    *)
(* its final-layer snapshot, has returned, and isProcessing is false.           *)
C4_RunCompletes ==
    \A id \in 1..MaxRuns :
        InProgress(id) ~>
            (/\ ~InProgress(id)
             /\ ~isProcessing
             /\ \E j \in 1..Len(emitted) :
                   emitted[j].run = id /\ emitted[j].layer = numLayers - 1)

\* A run has returned to idle with every unit inactive, though its sparsity
\* level allowed units to fire.
C4_Witness ==
    /\ Completed
    /\ ~isProcessing
    /\ emitted[1].sparsityLevel < 100
    /\ emitted[Len(emitted)].layer = numLayers - 1
    /\ \A i \in 1..Len(neurons) : ~neurons[i].active

(* C5: a call with the empty string is not accepted and changes nothing of the  *)
(* program's state, in whatever state it is made.                               *)
C5_EmptyInputNoOp ==
    [][(lastCall'.made /\ lastCall'.text = << >>) =>
           (~lastCall'.accepted /\ UNCHANGED progVars)]_vars

\* A call with the empty string was made while idle, with the slider moved.
C5_Witness ==
    /\ lastCall.made /\ lastCall.text = << >> /\ ~lastCall.accepted
    /\ runs = << >> /\ ~rendered.isProcessing
    /\ sparsityLevel # DefaultSparsity

(* C6: in the snapshot emitted for a layer L > 0, at most                       *)
(* ceil(layerSize * (1 - sparsityLevel)) units of layer L are active, and every *)
(* active unit of layer L had an activation above 0.1 before the clamp.         *)
C6_TopKBound ==
    \A j \in 1..Len(emitted) :
        LET e == emitted[j]
        IN  e.layer > 0 =>
              /\ 100 * ActiveCount(e.neurons, e.layer)
                   < LayerSize(e.neurons, e.layer) * (100 - e.sparsityLevel) + 100
              /\ \A i \in 1..Len(e.neurons) :
                    (e.neurons[i].layer = e.layer /\ e.neurons[i].active)
                        => 10 * e.raw[i].activation > One

\* The bound cut a unit off: in a layer's snapshot k units are active, and a unit
\* whose activation is above the floor is inactive.
C6_Witness ==
    \E j \in 1..Len(emitted) :
        LET e == emitted[j]
        IN  /\ e.layer > 0
            /\ ActiveCount(e.neurons, e.layer) = 1
            /\ e.sparsityLevel = DefaultSparsity
            /\ \E i \in 1..Len(e.neurons) :
                  /\ e.neurons[i].layer = e.layer
                  /\ ~e.neurons[i].active
                  /\ 10 * e.raw[i].activation > One

(* C7: in every layer's snapshot a connection is active if and only if its      *)
(* source unit was active in the snapshot emitted before it (the reset, for     *)
(* layer 0).                                                                    *)
C7_EdgeActiveIffSourceActive ==
    \A j \in 2..Len(emitted) :
        \A c \in 1..Len(emitted[j].connections) :
            emitted[j].connections[c].active
                <=> \E i \in 1..Len(emitted[j - 1].neurons) :
                       /\ emitted[j - 1].neurons[i].id = emitted[j].connections[c].from
                       /\ emitted[j - 1].neurons[i].active

\* The last layer's snapshot holds an active connection into an earlier layer,
\* an active one into the last layer, and an inactive one.
C7_Witness ==
    /\ Len(emitted) = numLayers + 1
    /\ LET cs == emitted[numLayers + 1].connections
       IN  /\ \E c \in 1..Len(cs) : cs[c].active /\ cs[c].to[1] = numLayers - 1
           /\ \E c \in 1..Len(cs) : cs[c].active /\ cs[c].to[1] < numLayers - 1
           /\ \E c \in 1..Len(cs) : ~cs[c].active

\* Number of layers of a built neuron list.
BuiltLayers(ns) == 1 + ns[Len(ns)].layer

OutEdges(cs, id) == {c \in 1..Len(cs) : cs[c].from = id}

(* C8: in a built topology every unit of a layer before the last has exactly    *)
(* min(8, size of the next layer) outgoing connections, to distinct units of    *)
(* the next layer; every connection goes from a layer to the next one, so none  *)
(* starts in the last layer or ends in the first; every weight is in [-1, 1].   *)
C8_TopologyInvariants ==
    neurons # << >> =>
        /\ \A i \in 1..Len(neurons) :
              neurons[i].layer < BuiltLayers(neurons) - 1 =>
                 LET out == OutEdges(connections, neurons[i].id)
                     next == LayerSize(neurons, neurons[i].layer + 1)
                 IN  /\ Cardinality(out) = Min(MaxOutDegree, next)
                     /\ Cardinality({connections[c].to : c \in out}) = Cardinality(out)
        /\ \A c \in 1..Len(connections) :
              /\ \E i, j \in 1..Len(neurons) :
                    /\ neurons[i].id = connections[c].from
                    /\ neurons[j].id = connections[c].to
                    /\ neurons[j].layer = neurons[i].layer + 1
              /\ connections[c].from[1] # BuiltLayers(neurons) - 1
              /\ connections[c].to[1] # 0
              /\ connections[c].weight >= -WeightDen
              /\ connections[c].weight <= WeightDen

\* A topology whose second layer has more than 8 units: the unit before it has 8
\* outgoing connections, of both weights.
C8_Witness ==
    /\ neurons # << >>
    /\ LayerSize(neurons, 1) > MaxOutDegree
    /\ Cardinality(OutEdges(connections, neurons[1].id)) = MaxOutDegree
    /\ \E c, d \in 1..Len(connections) : connections[c].weight < 0 /\ connections[d].weight > 0

(* C9: in a run with sparsityLevel = 1.0, k is 0 for every layer after the     *)
(* first, every snapshot has no active unit and no active connection, and the  *)
(* statistics of the run report 0 active units.                                 *)
C9_FullSparsityAllInactive ==
    /\ \A j \in 1..Len(emitted) :
          emitted[j].sparsityLevel = 100 =>
             /\ \A i \in 1..Len(emitted[j].neurons) : ~emitted[j].neurons[i].active
             /\ \A c \in 1..Len(emitted[j].connections) : ~emitted[j].connections[c].active
    /\ \A j \in 1..Len(emitted) :
          (emitted[j].sparsityLevel = 100 /\ emitted[j].layer > 0) =>
             TopK(LayerSize(emitted[j].neurons, emitted[j].layer), 100) = 0
    /\ (Completed /\ emitted[1].sparsityLevel = 100) => stats.active = 0

\* A run with sparsityLevel = 1.0 has returned, on a topology with a positive
\* weight, after an earlier run that left units active had set the statistics.
C9_Witness ==
    /\ Completed
    /\ Len(emitted) = numLayers + 1
    /\ emitted[1].sparsityLevel = 100
    /\ runCount = 2
    /\ stats.active = 0 /\ stats.total = Len(neurons)
    /\ \E c \in 1..Len(connections) : connections[c].weight > 0

(* C10: in a run with sparsityLevel = 0.0, k is the layer's size for a layer   *)
(* L > 0, and in the snapshot of L a unit of L is active if and only if its    *)
(* activation before the clamp is above 0.1.                                   *)
C10_ZeroSparsityFloorOnly ==
    \A j \in 1..Len(emitted) :
        LET e == emitted[j]
        IN  (e.layer > 0 /\ e.sparsityLevel = 0) =>
               /\ TopK(LayerSize(e.neurons, e.layer), 0) = LayerSize(e.neurons, e.layer)
               /\ \A i \in 1..Len(e.neurons) :
                     e.neurons[i].layer = e.layer =>
                        (e.neurons[i].active <=> 10 * e.raw[i].activation > One)

\* With sparsityLevel = 0.0 every unit of a layer of two is active in its
\* snapshot, and in another layer's snapshot a unit at or under the floor is not.
C10_Witness ==
    /\ \E j \in 1..Len(emitted) :
          /\ emitted[j].layer > 0 /\ emitted[j].sparsityLevel = 0
          /\ ActiveCount(emitted[j].neurons, emitted[j].layer) = 2
    /\ \E j \in 1..Len(emitted) :
          /\ emitted[j].layer > 0 /\ emitted[j].sparsityLevel = 0
          /\ ActiveCount(emitted[j].neurons, emitted[j].layer) = 0


RECURSIVE SumFrom(_, _)
SumFrom(ls, l) == IF l > Len(ls) THEN 0 ELSE ls[l] + SumFrom(ls, l + 1)

(* C11: when a run has returned, stats.active is the number of active units of  *)
(* its last snapshot, over all layers, stats.total is the sum of the layer      *)
(* sizes, and stats.sparsity is 100 * (1 - active/total) rounded to the nearest *)
(* integer (halves up), a value in 0..100.                                      *)
C11_StatisticsOfFinalSnapshot ==
    Completed =>
        LET ns == emitted[Len(emitted)].neurons
            a == Cardinality({i \in 1..Len(ns) : ns[i].active})
            t == SumFrom(layers, 1)
        IN  /\ stats.active = a
            /\ stats.total = t
            /\ 2 * stats.sparsity * t <= 200 * (t - a) + t
            /\ 200 * (t - a) + t < 2 * (stats.sparsity + 1) * t
            /\ stats.sparsity \in 0..100

\* A run has returned with active units in the first and in the last layer, and
\* an inactive unit: the count is over all layers, and sparsity is neither 0 nor
\* 100.
C11_Witness ==
    /\ Completed
    /\ ActiveCount(neurons, 0) > 0
    /\ ActiveCount(neurons, numLayers - 1) > 0
    /\ stats.active >= 2 /\ stats.active < stats.total
    /\ stats.sparsity > 0 /\ stats.sparsity < 100


\* The structural fields of the units and of the connections.
UnitStructure(ns) == [i \in 1..Len(ns) |-> [id |-> ns[i].id, layer |-> ns[i].layer]]

EdgeStructure(cs) ==
    [j \in 1..Len(cs) |-> [from |-> cs[j].from, to |-> cs[j].to, weight |-> cs[j].weight]]

(* C12: no step changes the topology's structure: the units' ids and layers and *)
(* the connections' endpoints and weights in the state, in the working copy of  *)
(* a run and in every emitted snapshot are those of the build.                  *)
C12_StructureUnchanged ==
    [][/\ UnitStructure(neurons') = UnitStructure(neurons)
       /\ EdgeStructure(connections') = EdgeStructure(connections)
       /\ UnitStructure(neurons) = UnitStructure(NeuronList(layers))
       /\ \A i \in 1..Len(runs') :
             /\ UnitStructure(runs'[i].updatedNeurons) = UnitStructure(neurons)
             /\ EdgeStructure(runs'[i].updatedConnections) = EdgeStructure(connections)
       /\ \A j \in 1..Len(emitted') :
             /\ UnitStructure(emitted'[j].neurons) = UnitStructure(neurons)
             /\ EdgeStructure(emitted'[j].connections) = EdgeStructure(connections)]_vars

\* Two runs have returned, the second leaving active units and active
\* connections of negative and of positive weight.
C12_Witness ==
    /\ Completed
    /\ runCount = 2
    /\ \E i \in 1..Len(neurons) : neurons[i].active /\ neurons[i].layer > 0
    /\ \E c, d \in 1..Len(connections) :
          /\ connections[c].active /\ connections[c].weight < 0
          /\ connections[d].active /\ connections[d].weight > 0


(* C13, as claimed: an emitted snapshot is immutable: the units and connections *)
(* it holds keep the active and activation values they had when it was emitted. *)
C13_SnapshotImmutable ==
    \A j \in 1..Len(emitted) :
        /\ HeldNeurons(j) = emitted[j].neurons
        /\ HeldConnections(j) = emitted[j].connections


(* C14: a run that has not yet taken step 0 holds the all-inactive state: its   *)
(* working copy, the displayed arrays and its only emission have every unit     *)
(* with active = false and activation = 0 and every connection inactive, and    *)
(* the units are those of the freshly built topology, whatever an earlier run   *)
(* left behind.                                                                 *)
C14_RunStartsAllInactive ==
    \A i \in 1..Len(runs) :
        runs[i].layerIdx = 0 =>
            /\ AllInactive(runs[i].updatedNeurons, runs[i].updatedConnections)
            /\ runs[i].updatedNeurons = NeuronList(layers)
            /\ AllInactive(neurons, connections)
            /\ Len(emitted) = 1
            /\ emitted[1].neurons = runs[i].updatedNeurons
            /\ emitted[1].connections = runs[i].updatedConnections

\* The second run has been accepted and is before its step 0; the first left
\* active units, counted in its statistics.
C14_Witness ==
    /\ runCount = 2
    /\ Len(runs) = 1
    /\ runs[1].layerIdx = 0
    /\ stats.active >= 2


(* C15: in every emitted snapshot every active unit, of the input layer as of   *)
(* the others, has an activation between 0 and 1; no unit's activation is       *)
(* negative.                                                                    *)
C15_ActiveActivationInUnitInterval ==
    \A j \in 1..Len(emitted) :
        \A i \in 1..Len(emitted[j].neurons) :
            LET n == emitted[j].neurons[i]
            IN  /\ n.activation >= 0
                /\ n.active => n.activation <= One

\* A snapshot holds an input unit whose rescaled value was clamped to 1, an
\* active unit of a later layer clamped to 1, and an inactive unit left with a
\* value above 1.
C15_Witness ==
    \E j \in 1..Len(emitted) :
        LET ns == emitted[j].neurons
        IN  /\ \E i \in 1..Len(ns) :
                  ns[i].layer = 0 /\ ns[i].active /\ ns[i].activation = One
            /\ \E i \in 1..Len(ns) :
                  /\ ns[i].layer > 0 /\ ns[i].active /\ ns[i].activation = One
                  /\ emitted[j].raw[i].activation > One
            /\ \E i \in 1..Len(ns) : ~ns[i].active /\ ns[i].activation > One


(* C16: the snapshot emitted for layer L differs from the one emitted before it *)
(* only in the units of layer L and in the active field of connections whose    *)
(* target is in layer L; hence the units of a layer are, in every later         *)
(* snapshot of the run, as its own layer's snapshot left them.                  *)
C16_StepWritesOwnLayerOnly ==
    /\ \A j \in 2..Len(emitted) :
          LET L == emitted[j].layer
              ns == emitted[j].neurons
              cs == emitted[j].connections
          IN  /\ \A i \in 1..Len(ns) :
                    ns[i].layer # L => ns[i] = emitted[j - 1].neurons[i]
              /\ \A c \in 1..Len(cs) :
                    /\ cs[c].to[1] # L => cs[c] = emitted[j - 1].connections[c]
                    /\ [cs[c] EXCEPT !.active = FALSE]
                          = [emitted[j - 1].connections[c] EXCEPT !.active = FALSE]
    /\ \A j \in 2..Len(emitted) : \A jj \in j..Len(emitted) :
          \A i \in 1..Len(emitted[j].neurons) :
              emitted[j].neurons[i].layer = emitted[j].layer
                  => emitted[jj].neurons[i] = emitted[j].neurons[i]

\* The run has emitted its last layer; the step of layer 1 made a unit of layer
\* 1 active and a connection into layer 1 active, with a unit of layer 0 active
\* and a unit of the last layer active at the end.
C16_Witness ==
    /\ Len(emitted) = numLayers + 1
    /\ ActiveCount(emitted[3].neurons, 0) > 0
    /\ ActiveCount(emitted[3].neurons, 1) > 0
    /\ ActiveCount(emitted[numLayers + 1].neurons, numLayers - 1) > 0
    /\ \E c \in 1..Len(emitted[3].connections) :
          /\ emitted[3].connections[c].to[1] = 1
          /\ emitted[3].connections[c].active
          /\ ~emitted[2].connections[c].active


(* C17: if the snapshot emitted for a layer L has no active unit of layer L,    *)
(* then in that and every later snapshot of the run no unit of a layer above L  *)
(* is active and no connection into a layer above L is active, and the          *)
(* statistics of the finished run count exactly the active units of the layers  *)
(* below L.                                                                     *)
C17_EmptyLayerStopsPropagation ==
    \A j \in 2..Len(emitted) :
        LET L == emitted[j].layer
        IN  ActiveCount(emitted[j].neurons, L) = 0 =>
              /\ \A jj \in j..Len(emitted) :
                    /\ \A i \in 1..Len(emitted[jj].neurons) :
                          emitted[jj].neurons[i].layer > L
                              => ~emitted[jj].neurons[i].active
                    /\ \A c \in 1..Len(emitted[jj].connections) :
                          emitted[jj].connections[c].to[1] > L
                              => ~emitted[jj].connections[c].active
              /\ Completed =>
                    stats.active =
                        Cardinality({i \in 1..Len(neurons) :
                                        neurons[i].active /\ neurons[i].layer < L})

\* A finished run whose input layer fired, whose layer 1 stayed empty under
\* negative weights, and whose statistics count the input units alone.
C17_Witness ==
    /\ Completed
    /\ Len(emitted) = numLayers + 1
    /\ ActiveCount(emitted[3].neurons, 0) = 2
    /\ ActiveCount(emitted[3].neurons, 1) = 0
    /\ stats.active = 2
    /\ \E c \in 1..Len(connections) : connections[c].to[1] = 2 /\ connections[c].weight > 0


(* C18: in every emitted snapshot every active unit of a layer L > 0 has an     *)
(* active incoming connection of positive weight whose source is an active unit *)
(* of layer L - 1.                                                              *)
C18_ActiveUnitHasPositiveActiveEdge ==
    \A j \in 1..Len(emitted) :
        LET ns == emitted[j].neurons
            cs == emitted[j].connections
        IN  \A i \in 1..Len(ns) :
                (ns[i].active /\ ns[i].layer > 0) =>
                    \E c \in 1..Len(cs) :
                        /\ cs[c].to = ns[i].id
                        /\ cs[c].active
                        /\ cs[c].weight > 0
                        /\ \E s \in 1..Len(ns) :
                              /\ ns[s].id = cs[c].from
                              /\ ns[s].layer = ns[i].layer - 1
                              /\ ns[s].active

\* The last snapshot of a run holds an active unit of the last layer, and an
\* active unit of a layer above 0 that also has an active incoming connection of
\* negative weight.
C18_Witness ==
    /\ Len(emitted) = numLayers + 1
    /\ ActiveCount(emitted[numLayers + 1].neurons, numLayers - 1) > 0
    /\ LET ns == emitted[numLayers + 1].neurons
           cs == emitted[numLayers + 1].connections
       IN  \E i \in 1..Len(ns) :
              /\ ns[i].active /\ ns[i].layer > 0
              /\ \E c \in 1..Len(cs) :
                    cs[c].to = ns[i].id /\ cs[c].active /\ cs[c].weight < 0


(* C19: a run uses one sparsityLevel and one text for all its steps, those of   *)
(* its acceptance: an accepted call's run holds the features of the call's text *)
(* and the current sparsityLevel; a run that goes on keeps both; every emission *)
(* of the run carries that sparsityLevel; and while a run is in progress no     *)
(* step changes sparsityLevel or inputText.                                     *)
C19_RunConfigurationFixed ==
    [][/\ runs # << >> =>
             /\ isProcessing
             /\ sparsityLevel' = sparsityLevel
             /\ inputText' = inputText
       /\ lastCall'.accepted =>
             /\ runs'[Len(runs')].features = Tokenize(lastCall'.text)
             /\ runs'[Len(runs')].sparsityLevel = sparsityLevel
       /\ \A i \in 1..Len(runs), ii \in 1..Len(runs') :
             runs'[ii].id = runs[i].id =>
                 /\ runs'[ii].features = runs[i].features
                 /\ runs'[ii].sparsityLevel = runs[i].sparsityLevel
       /\ \A ii \in 1..Len(runs') :
             /\ runs'[ii].sparsityLevel = sparsityLevel'
             /\ \A j \in 1..Len(emitted') :
                   emitted'[j].sparsityLevel = runs'[ii].sparsityLevel]_vars

\* The second run, accepted with the slider moved to 0 and text in the box, is
\* past its first two layers.
C19_Witness ==
    /\ runCount = 2
    /\ Len(runs) = 1
    /\ runs[1].layerIdx >= 2
    /\ runs[1].sparsityLevel = 0
    /\ inputText # << >>
    /\ runs[1].features = Tokenize(inputText)

====
